---- MODULE Spec2Model ----
(***************************************************************************)
(* Model of bank_system.py: a loan service that keeps its whole dataset in *)
(* one JSON file.  Every request loads the file, works on the loaded copy  *)
(* and (for lend and pay) writes the whole copy back.                      *)
(*                                                                         *)
(* Numbers.  The code computes with Python floats (binary floating point,  *)
(* round to nearest, ties to even).  A float is modelled as an integer     *)
(* count of binary units of 2^-FracBits: sums and differences are exact,   *)
(* products, quotients and decimal conversions round to the nearest unit,  *)
(* ties to even.  Decimal values (0.01, 0.1, ...) are therefore not        *)
(* representable exactly, as in the code.  A decimal of the request body   *)
(* is written in thousandths ("mills"): 1200000 is 1200, 30 is 0.03.       *)
(* The "date" of a payment is not modelled.                                *)
(***************************************************************************)
EXTENDS Integers, Sequences, FiniteSets, TLC

VARIABLES file, last, pc, pend, done

vars == <<file, last, pc, pend, done>>

(* ------------------------------ bounds --------------------------------- *)
FracBits == 17
MaxLoans == 2
MaxPayments == 2

(* ------------------------------ floats --------------------------------- *)
RECURSIVE Pow2(_)
Pow2(n) == IF n = 0 THEN 1 ELSE 2 * Pow2(n - 1)

U == Pow2(FracBits)

Abs(x) == IF x < 0 THEN -x ELSE x

MaxInt == (Pow2(30) - 1) + Pow2(30)

\* a*b = q*d + r with 0 <= r < d, for a, b >= 0 and 0 < d < MaxInt \div 31.
\* The product is formed directly when it fits the machine integer and
\* digit by digit (radix 16) otherwise.
RECURSIVE MulDivMod(_, _, _)
MulDivMod(a, b, d) ==
    IF b = 0 THEN [q |-> 0, r |-> 0]
    ELSE IF a <= MaxInt \div b THEN [q |-> (a * b) \div d, r |-> (a * b) % d]
    ELSE LET h  == MulDivMod(a, b \div 16, d)
             r2 == 16 * h.r + (b % 16) * (a % d)
             q2 == 16 * h.q + (b % 16) * (a \div d)
         IN  [q |-> q2 + (r2 \div d), r |-> r2 % d]

\* a*b/d rounded to the nearest integer, ties to the even one
RoundDiv(a, b, d) ==
    LET m == MulDivMod(Abs(a), b, d)
        n == IF 2 * m.r > d \/ (2 * m.r = d /\ m.q % 2 = 1) THEN m.q + 1 ELSE m.q
    IN  IF a < 0 THEN -n ELSE n

FromMills(m) == RoundDiv(m, U, 1000)
FromInt(n) == n * U
FromCents(c) == RoundDiv(c, U, 100)
CentsOf(x) == RoundDiv(x, 100, U)

FMul(x, y) == RoundDiv(x, y, U)
FDiv(x, y) == RoundDiv(x, U, y)

\* mutant: cuts to 2 decimals instead of rounding
Round2_Truncate(x) == FromCents((x * 100) \div U)

Round2(x) == FromCents(CentsOf(x))

Ceil(x) == -((-x) \div U)

IntOf(m) == m \div 1000

Max(a, b) == IF a > b THEN a ELSE b

RECURSIVE SumAmounts(_)
SumAmounts(ps) ==
    IF ps = <<>> THEN 0
    ELSE SumAmounts(SubSeq(ps, 1, Len(ps) - 1)) + ps[Len(ps)].amount

(* --------------------------- request bodies ---------------------------- *)
Null == [t |-> "null"]
Num(m) == [t |-> "num", m |-> m]
Str(s) == [t |-> "str", s |-> s]

IsNull(v) == v.t = "null"
Truthy(v) == v.t = "str" /\ v.s # ""

LendReq(c, a, y, r) == [customer_id |-> c, amount |-> a, years |-> y, rate |-> r]
PayReq(l, a) == [loan_id |-> l, amount |-> a]

\* well-formed bodies, then bodies with one field missing, empty or
\* non-positive
ValidLendRequests ==
    { LendReq(Str("c1"), Num(300), Num(1000), Num(10000)),
      LendReq(Str("c1"), Num(1200000), Num(1000), Num(10000)),
      LendReq(Str("c2"), Num(300), Num(2000), Num(10000)),
      LendReq(Str("c1"), Num(300), Num(1500), Num(10000)) }

InvalidLendRequests ==
    { LendReq(Null, Num(300), Num(1000), Num(10000)),
      LendReq(Str(""), Num(300), Num(1000), Num(10000)),
      LendReq(Str("c1"), Null, Num(1000), Num(10000)),
      LendReq(Str("c1"), Num(0), Num(1000), Num(10000)),
      LendReq(Str("c1"), Num(300), Null, Num(10000)),
      LendReq(Str("c1"), Num(300), Num(500), Num(10000)),
      LendReq(Str("c1"), Num(300), Num(1000), Null),
      LendReq(Str("c1"), Num(300), Num(1000), Num(0)) }

LendRequests == ValidLendRequests \cup InvalidLendRequests

ValidPayRequests ==
    { PayReq(Str(l), Num(a)) : l \in {"1", "2"}, a \in {1, 90, 2000000} }

InvalidPayRequests ==
    { PayReq(Null, Num(90)),
      PayReq(Str(""), Num(90)),
      PayReq(Str("9"), Num(90)),
      PayReq(Str("1"), Null),
      PayReq(Str("1"), Num(0)),
      PayReq(Str("1"), Num(-5000)) }

PayRequests == ValidPayRequests \cup InvalidPayRequests

PathLoanIds == {"1", "2", "9"}
PathCustomerIds == {"c1", "c2", "zz"}

(* ------------------------------ dataset -------------------------------- *)
EmptyData == [loans |-> <<>>, customers |-> <<>>, next_loan_id |-> 1]

load_data(f) == f

save_data(data) == data

Put(f, k, v) == [x \in (DOMAIN f) \cup {k} |-> IF x = k THEN v ELSE f[x]]

TotalPayments(data) ==
    LET RECURSIVE Count(_)
        Count(S) == IF S = {} THEN 0
                    ELSE LET k == CHOOSE x \in S : TRUE
                         IN  Len(data.loans[k].payments) + Count(S \ {k})
    IN  Count(DOMAIN data.loans)

\* mutant: amount_paid and balance_amount are reported without rounding
get_loan_details_Unrounded(loan_id, data) ==
    LET loan == data.loans[loan_id]
        amount_paid == SumAmounts(loan.payments)
        balance_amount == loan.total_amount - amount_paid
        emis_left == IF loan.emi_amount > 0
                     THEN Ceil(FDiv(balance_amount, loan.emi_amount))
                     ELSE 0
    IN  [principal |-> loan.principal,
         total_amount |-> loan.total_amount,
         emi_amount |-> loan.emi_amount,
         total_interest |-> loan.total_interest,
         amount_paid |-> amount_paid,
         balance_amount |-> balance_amount,
         emis_left |-> Max(0, emis_left)]

get_loan_details(loan_id, data) ==
    LET loan == data.loans[loan_id]
        amount_paid == SumAmounts(loan.payments)
        balance_amount == loan.total_amount - amount_paid
        emis_left == IF loan.emi_amount > 0
                     THEN Ceil(FDiv(balance_amount, loan.emi_amount))
                     ELSE 0
    IN  [principal |-> loan.principal,
         total_amount |-> loan.total_amount,
         emi_amount |-> loan.emi_amount,
         total_interest |-> loan.total_interest,
         amount_paid |-> Round2(amount_paid),
         balance_amount |-> Round2(balance_amount),
         emis_left |-> Max(0, emis_left)]

(* -------------------------------- lend --------------------------------- *)
\* float(None) and int(None) raise before the validation is reached
lend_raises(req) == IsNull(req.amount) \/ IsNull(req.years) \/ IsNull(req.rate)

lend_principal(req) == FromMills(req.amount.m)
lend_years(req) == IntOf(req.years.m)
lend_rate(req) == FDiv(FromMills(req.rate.m), FromInt(100))

lend_valid(req) ==
    /\ Truthy(req.customer_id)
    /\ lend_principal(req) > 0
    /\ lend_years(req) > 0
    /\ lend_rate(req) > 0

new_loan(req) ==
    LET principal == lend_principal(req)
        years == lend_years(req)
        rate == lend_rate(req)
        interest == FMul(FMul(principal, FromInt(years)), rate)
        total_amount == principal + interest
        emi_amount == FDiv(total_amount, FromInt(years * 12))
    IN  [customer_id |-> req.customer_id.s,
         principal |-> principal,
         years |-> years,
         rate |-> rate,
         total_interest |-> Round2(interest),
         total_amount |-> Round2(total_amount),
         emi_amount |-> Round2(emi_amount),
         payments |-> <<>>]

\* mutant: the counter is not advanced
lend_update_NoIncrement(req, data) ==
    LET loan_id == ToString(data.next_loan_id)
        cid == req.customer_id.s
        old_ids == IF cid \in DOMAIN data.customers
                   THEN data.customers[cid].loan_ids ELSE <<>>
    IN  [loans |-> Put(data.loans, loan_id, new_loan(req)),
         customers |-> Put(data.customers, cid, [loan_ids |-> Append(old_ids, loan_id)]),
         next_loan_id |-> data.next_loan_id]

\* mutant: the customer record is created anew on every loan
lend_update_ResetCustomer(req, data) ==
    LET loan_id == ToString(data.next_loan_id)
        cid == req.customer_id.s
    IN  [loans |-> Put(data.loans, loan_id, new_loan(req)),
         customers |-> Put(data.customers, cid, [loan_ids |-> <<loan_id>>]),
         next_loan_id |-> data.next_loan_id + 1]

\* mutant: the new loan is put first in the customer's loan_ids
lend_update_Prepend(req, data) ==
    LET loan_id == ToString(data.next_loan_id)
        cid == req.customer_id.s
        old_ids == IF cid \in DOMAIN data.customers
                   THEN data.customers[cid].loan_ids ELSE <<>>
    IN  [loans |-> Put(data.loans, loan_id, new_loan(req)),
         customers |-> Put(data.customers, cid, [loan_ids |-> <<loan_id>> \o old_ids]),
         next_loan_id |-> data.next_loan_id + 1]

\* lines 76-98: the loaded dataset with the new loan added
lend_update(req, data) ==
    LET loan_id == ToString(data.next_loan_id)
        cid == req.customer_id.s
        old_ids == IF cid \in DOMAIN data.customers
                   THEN data.customers[cid].loan_ids ELSE <<>>
    IN  [loans |-> Put(data.loans, loan_id, new_loan(req)),
         customers |-> Put(data.customers, cid, [loan_ids |-> Append(old_ids, loan_id)]),
         next_loan_id |-> data.next_loan_id + 1]

lend_response(req, data) ==
    IF lend_raises(req) THEN [op |-> "lend", req |-> req, status |-> 500]
    ELSE IF ~lend_valid(req)
    THEN [op |-> "lend", req |-> req, status |-> 400,
          error |-> "Invalid or missing parameters."]
    ELSE [op |-> "lend", req |-> req, status |-> 201,
          loan_id |-> ToString(data.next_loan_id),
          message |-> "Loan approved successfully.",
          total_amount_to_pay |-> new_loan(req).total_amount,
          monthly_emi |-> new_loan(req).emi_amount]

(* --------------------------------- pay --------------------------------- *)
pay_raises(req) == IsNull(req.amount)

pay_valid(req) == Truthy(req.loan_id) /\ FromMills(req.amount.m) > 0

pay_found(req, data) == req.loan_id.s \in DOMAIN data.loans

\* mutant: a balance of exactly 0 is not taken as fully paid
pay_fully_paid_Strict(req, data) ==
    get_loan_details(req.loan_id.s, data).balance_amount < 0

pay_fully_paid(req, data) ==
    get_loan_details(req.loan_id.s, data).balance_amount <= 0

\* mutant: the cap is the loan's total, not what is left of it
pay_amount_CapAtTotal(req, data) ==
    LET amount == FromMills(req.amount.m)
        total == data.loans[req.loan_id.s].total_amount
    IN  IF amount > total THEN total ELSE amount

\* lines 134-135: the amount after the cap
pay_amount(req, data) ==
    LET amount == FromMills(req.amount.m)
        details == get_loan_details(req.loan_id.s, data)
    IN  IF amount > details.balance_amount THEN details.balance_amount ELSE amount

payment_record(req, data) == [amount |-> Round2(pay_amount(req, data))]

\* mutant: the amount is not checked before the payment is recorded
pay_records_AmountUnchecked(req, data) ==
    /\ ~pay_raises(req)
    /\ Truthy(req.loan_id)
    /\ pay_found(req, data)
    /\ ~pay_fully_paid(req, data)

\* a payment is recorded: every early return of make_payment is passed
pay_records(req, data) ==
    /\ ~pay_raises(req)
    /\ pay_valid(req)
    /\ pay_found(req, data)
    /\ ~pay_fully_paid(req, data)

\* mutant: the new payment replaces the history
pay_update_Replace(req, data) ==
    LET loan_id == req.loan_id.s
    IN  [data EXCEPT !.loans[loan_id].payments = <<payment_record(req, data)>>]

pay_update(req, data) ==
    LET loan_id == req.loan_id.s
    IN  [data EXCEPT !.loans[loan_id].payments = Append(@, payment_record(req, data))]

pay_response(req, data) ==
    IF pay_raises(req) THEN [op |-> "pay", req |-> req, status |-> 500]
    ELSE IF ~pay_valid(req)
    THEN [op |-> "pay", req |-> req, status |-> 400,
          error |-> "Loan ID and a positive amount are required."]
    ELSE IF ~pay_found(req, data)
    THEN [op |-> "pay", req |-> req, status |-> 404, error |-> "Loan not found."]
    ELSE IF pay_fully_paid(req, data)
    THEN [op |-> "pay", req |-> req, status |-> 200,
          message |-> "This loan is already fully paid."]
    ELSE [op |-> "pay", req |-> req, status |-> 200,
          message |-> "Payment recorded successfully.",
          loan_id |-> req.loan_id.s,
          amount_paid |-> pay_amount(req, data)]

(* ------------------------------- queries ------------------------------- *)
ledger_response(loan_id, data) ==
    IF loan_id \notin DOMAIN data.loans
    THEN [op |-> "ledger", req |-> loan_id, status |-> 404, error |-> "Loan not found."]
    ELSE LET loan == data.loans[loan_id]
             details == get_loan_details(loan_id, data)
         IN  [op |-> "ledger", req |-> loan_id, status |-> 200,
              loan_id |-> loan_id,
              customer_id |-> loan.customer_id,
              balance_amount |-> details.balance_amount,
              monthly_emi |-> details.emi_amount,
              emis_left |-> details.emis_left,
              transactions |-> loan.payments]

loan_summary(loan_id, data) ==
    LET details == get_loan_details(loan_id, data)
    IN  [loan_id |-> loan_id,
         principal_amount |-> details.principal,
         total_amount |-> details.total_amount,
         emi_amount |-> details.emi_amount,
         total_interest |-> details.total_interest,
         amount_paid_till_date |-> details.amount_paid,
         emis_left |-> details.emis_left]

RECURSIVE overview_list(_, _)
overview_list(ids, data) ==
    IF ids = <<>> THEN <<>>
    ELSE LET rest == overview_list(SubSeq(ids, 1, Len(ids) - 1), data)
             loan_id == ids[Len(ids)]
         IN  IF loan_id \in DOMAIN data.loans
             THEN Append(rest, loan_summary(loan_id, data))
             ELSE rest

overview_response(customer_id, data) ==
    IF customer_id \notin DOMAIN data.customers
    THEN [op |-> "overview", req |-> customer_id, status |-> 404,
          error |-> "Customer not found."]
    ELSE [op |-> "overview", req |-> customer_id, status |-> 200,
          customer_id |-> customer_id,
          loans |-> overview_list(data.customers[customer_id].loan_ids, data)]

(* --------------------- requests processed one at a time ---------------- *)
Procs == {1, 2}

NoResponse == [op |-> "none", status |-> 0]

\* a request between its load and its save: the dataset as loaded, the
\* copy it changed, and the response it is about to give
NoPending == [base |-> EmptyData, data |-> EmptyData, resp |-> NoResponse]

Init ==
    /\ file = EmptyData
    /\ last = NoResponse
    /\ pc = [p \in Procs |-> "idle"]
    /\ pend = [p \in Procs |-> NoPending]
    /\ done = [p \in Procs |-> <<>>]

lend_money ==
    \E req \in LendRequests :
        LET data == load_data(file)
        IN  /\ last' = lend_response(req, data)
            /\ IF lend_raises(req) \/ ~lend_valid(req)
               THEN file' = file
               ELSE /\ data.next_loan_id <= MaxLoans
                    /\ file' = save_data(lend_update(req, data))
            /\ UNCHANGED <<pc, pend, done>>

make_payment ==
    \E req \in PayRequests :
        LET data == load_data(file)
        IN  /\ last' = pay_response(req, data)
            /\ IF pay_records(req, data)
               THEN /\ TotalPayments(data) < MaxPayments
                    /\ file' = save_data(pay_update(req, data))
               ELSE file' = file
            /\ UNCHANGED <<pc, pend, done>>

get_ledger ==
    \E loan_id \in PathLoanIds :
        /\ last' = ledger_response(loan_id, load_data(file))
        /\ UNCHANGED <<file, pc, pend, done>>

get_account_overview ==
    \E customer_id \in PathCustomerIds :
        /\ last' = overview_response(customer_id, load_data(file))
        /\ UNCHANGED <<file, pc, pend, done>>

Next == lend_money \/ make_payment \/ get_ledger \/ get_account_overview

Spec == Init /\ [][Next]_vars

(* ------------- concurrent requests: load and save interleave ----------- *)
MaxRequests == 2

ConcLendRequests ==
    { LendReq(Str("c1"), Num(300), Num(1000), Num(10000)),
      LendReq(Str("c2"), Num(300), Num(1000), Num(10000)),
      LendReq(Str("c1"), Num(0), Num(1000), Num(10000)) }

ConcPayRequests ==
    { PayReq(Str("1"), Num(90)),
      PayReq(Str("1"), Num(2000000)),
      PayReq(Str("9"), Num(90)) }

Answer(p, resp) == done' = [done EXCEPT ![p] = Append(@, resp)]

\* lend_money up to its save: lines 61-98
lend_load(p) ==
    /\ pc[p] = "idle"
    /\ Len(done[p]) < MaxRequests
    /\ \E req \in ConcLendRequests :
          LET data == load_data(file)
          IN  IF lend_raises(req) \/ ~lend_valid(req)
              THEN /\ Answer(p, lend_response(req, data))
                   /\ UNCHANGED <<pc, pend>>
              ELSE /\ data.next_loan_id <= MaxLoans
                   /\ pend' = [pend EXCEPT ![p] = [base |-> data,
                                                   data |-> lend_update(req, data),
                                                   resp |-> lend_response(req, data)]]
                   /\ pc' = [pc EXCEPT ![p] = "save"]
                   /\ UNCHANGED done
    /\ UNCHANGED <<file, last>>

\* make_payment up to its save: lines 116-142
pay_load(p) ==
    /\ pc[p] = "idle"
    /\ Len(done[p]) < MaxRequests
    /\ \E req \in ConcPayRequests :
          LET data == load_data(file)
          IN  IF pay_records(req, data)
              THEN /\ TotalPayments(data) < MaxPayments
                   /\ pend' = [pend EXCEPT ![p] = [base |-> data,
                                                   data |-> pay_update(req, data),
                                                   resp |-> pay_response(req, data)]]
                   /\ pc' = [pc EXCEPT ![p] = "save"]
                   /\ UNCHANGED done
              ELSE /\ Answer(p, pay_response(req, data))
                   /\ UNCHANGED <<pc, pend>>
    /\ UNCHANGED <<file, last>>

\* mutant: the save writes the loans of the copy only
save_and_answer_LoansOnly(p) ==
    /\ pc[p] = "save"
    /\ file' = [file EXCEPT !.loans = pend[p].data.loans]
    /\ Answer(p, pend[p].resp)
    /\ pc' = [pc EXCEPT ![p] = "idle"]
    /\ pend' = [pend EXCEPT ![p] = NoPending]
    /\ UNCHANGED last

\* save_data(data) and the response: lines 100-107 and 143-149
save_and_answer(p) ==
    /\ pc[p] = "save"
    /\ file' = save_data(pend[p].data)
    /\ Answer(p, pend[p].resp)
    /\ pc' = [pc EXCEPT ![p] = "idle"]
    /\ pend' = [pend EXCEPT ![p] = NoPending]
    /\ UNCHANGED last

ConcNext == \E p \in Procs : lend_load(p) \/ pay_load(p) \/ save_and_answer(p)

ConcSpec == Init /\ [][ConcNext]_vars

(* ------------- one borrower who pays the EMI, one at a time ------------ *)
EmiLendRequests ==
    { LendReq(Str("c1"), Num(a), Num(y), Num(10000)) :
        a \in {50, 300, 1000, 3000, 100000, 500000, 1200000}, y \in {1000, 2000} }

\* POST /lend for a borrower without a loan
emi_lend ==
    \E req \in EmiLendRequests :
        LET data == load_data(file)
        IN  /\ data.next_loan_id = 1
            /\ ~lend_raises(req) /\ lend_valid(req)
            /\ last' = lend_response(req, data)
            /\ file' = save_data(lend_update(req, data))
            /\ UNCHANGED <<pc, pend, done>>

\* the body of a pay of exactly the loan's emi_amount
EmiPayReq(loan_id, data) ==
    PayReq(Str(loan_id), Num(10 * CentsOf(data.loans[loan_id].emi_amount)))

\* POST /payment with amount = emi_amount
emi_pay ==
    \E loan_id \in DOMAIN file.loans :
        LET data == load_data(file)
            req == EmiPayReq(loan_id, data)
        IN  /\ last' = pay_response(req, data)
            /\ IF pay_records(req, data)
               THEN file' = save_data(pay_update(req, data))
               ELSE file' = file
            /\ UNCHANGED <<pc, pend, done>>

EmiNext == emi_lend \/ emi_pay

EmiSpec == Init /\ [][EmiNext]_vars

(* ------------------------------ properties ----------------------------- *)
LoanIds == DOMAIN file.loans

Details(loan_id) == get_loan_details(loan_id, file)

LendApproved(r) == r.op = "lend" /\ r.status = 201
PayRecorded(r) == r.op = "pay" /\ r.status = 200
                  /\ r.message = "Payment recorded successfully."
PayAlreadyPaid(r) == r.op = "pay" /\ r.status = 200
                     /\ r.message = "This loan is already fully paid."
Failed(r) == r.status \in {400, 404, 500}

\* C1: the k-th successful lend returns str(k), an identifier not in use,
\* whatever the customer; next_loan_id never decreases and changes only in
\* a successful lend, by exactly 1.
C1_LoanIdsSequential ==
    [][ /\ file'.next_loan_id >= file.next_loan_id
        /\ file'.next_loan_id # file.next_loan_id
             => LendApproved(last') /\ file'.next_loan_id = file.next_loan_id + 1
        /\ (LendApproved(last') /\ file' # file)
             => /\ last'.loan_id = ToString(Cardinality(LoanIds) + 1)
                /\ last'.loan_id \notin LoanIds
                /\ DOMAIN file'.loans = LoanIds \cup {last'.loan_id}
                /\ file'.next_loan_id = file.next_loan_id + 1 ]_vars

C1_Witness ==
    /\ LendApproved(last)
    /\ last.loan_id = "2"
    /\ file.loans["1"].customer_id # file.loans["2"].customer_id

\* C2: every loan of the persisted dataset has balance_amount >= 0.
C2_NoOverpayment ==
    \A id \in LoanIds : Details(id).balance_amount >= 0

C2_Witness ==
    /\ PayRecorded(last)
    /\ FromMills(last.req.amount.m) > last.amount_paid
    /\ Details(last.loan_id).balance_amount = 0

\* C3: a pay larger than the remaining positive balance records a payment
\* equal to that balance, and then balance_amount = 0 and emis_left = 0.
C3_OverpaymentCapped ==
    [][ (/\ PayRecorded(last')
         /\ file' # file
         /\ FromMills(last'.req.amount.m) > Details(last'.loan_id).balance_amount)
        => LET id == last'.loan_id
               ps == file'.loans[id].payments
           IN  /\ Len(ps) = Len(file.loans[id].payments) + 1
               /\ ps[Len(ps)].amount = Details(id).balance_amount
               /\ get_loan_details(id, file').balance_amount = 0
               /\ get_loan_details(id, file').emis_left = 0 ]_vars

\* C4: a pay with a positive amount on a loan whose balance is <= 0 changes
\* nothing and answers "already fully paid".
C4_PayFullyPaidIdempotent ==
    [][ (/\ last'.op = "pay"
         /\ last'.status = 200
         /\ Details(last'.req.loan_id.s).balance_amount <= 0)
        => /\ file' = file
           /\ PayAlreadyPaid(last') ]_vars

C4_Witness ==
    /\ PayAlreadyPaid(last)
    /\ Len(file.loans[last.req.loan_id.s].payments) > 0

\* C5: a request that fails leaves loans, customers and next_loan_id as
\* they were.
C5_FailureLeavesDataset ==
    [][ Failed(last') => file' = file ]_vars

C5_Witness ==
    /\ Failed(last)
    /\ LoanIds # {}

\* C6: a pay that saves leaves as the loan's history the history it loaded
\* plus its own payment, whatever was saved in between; so two pays that
\* both load before either saves both answer "recorded" while one payment
\* only is persisted.
Saves(p) == pc[p] = "save" /\ pc'[p] = "idle"

C6_LastWriteWins ==
    [][ \A p \in Procs :
          (Saves(p) /\ PayRecorded(pend[p].resp))
          => LET id == pend[p].resp.loan_id
                 loaded == pend[p].base.loans[id].payments
             IN  /\ Len(file'.loans[id].payments) = Len(loaded) + 1
                 /\ SubSeq(file'.loans[id].payments, 1, Len(loaded)) = loaded
                 /\ file'.loans[id].payments[Len(loaded) + 1].amount
                      = Round2(pend[p].resp.amount_paid) ]_vars

\* the number of "Payment recorded successfully." answers given for a loan
RecordedAnswers(id) ==
    Cardinality({ <<p, i>> \in Procs \X (1..MaxRequests) :
                    /\ i <= Len(done[p])
                    /\ PayRecorded(done[p][i])
                    /\ done[p][i].loan_id = id })

C6_Witness ==
    /\ \A p \in Procs : pc[p] = "idle"
    /\ "1" \in LoanIds
    /\ RecordedAnswers("1") = 2
    /\ Len(file.loans["1"].payments) = 1

\* C7: for every loan, the reported emis_left is never negative, is 0 when
\* balance_amount <= 0, and otherwise is ceil(balance_amount / emi_amount)
\* when emi_amount > 0, and 0 when emi_amount is 0.
C7_EmisLeft ==
    \A id \in LoanIds :
        LET d == Details(id)
        IN  /\ d.emis_left >= 0
            /\ d.balance_amount <= 0 => d.emis_left = 0
            /\ (d.balance_amount > 0 /\ d.emi_amount > 0)
                 => d.emis_left = Ceil(FDiv(d.balance_amount, d.emi_amount))
            /\ (d.balance_amount > 0 /\ d.emi_amount = 0) => d.emis_left = 0

IsPrefix(s, t) == Len(s) <= Len(t) /\ SubSeq(t, 1, Len(s)) = s

\* C8: across every operation each loan stays, with its terms unchanged and
\* its payment history a prefix of the later history, and each customer
\* keeps its loan_ids as a prefix of its later loan_ids.
C8_RecordsOnlyGrow ==
    [][ /\ \A id \in LoanIds :
              /\ id \in DOMAIN file'.loans
              /\ [file'.loans[id] EXCEPT !.payments = <<>>]
                   = [file.loans[id] EXCEPT !.payments = <<>>]
              /\ IsPrefix(file.loans[id].payments, file'.loans[id].payments)
        /\ \A c \in DOMAIN file.customers :
              /\ c \in DOMAIN file'.customers
              /\ IsPrefix(file.customers[c].loan_ids, file'.customers[c].loan_ids) ]_vars

C8_Witness ==
    /\ \E id \in LoanIds : Len(file.loans[id].payments) = 2
    /\ \E c \in DOMAIN file.customers : Len(file.customers[c].loan_ids) = 2

\* c is the decimal a*b/d rounded to the nearest integer (either neighbour
\* on a tie)
IsNearest(c, a, b, d) ==
    LET m == MulDivMod(a, b, d)
    IN  IF 2 * m.r < d THEN c = m.q
        ELSE IF 2 * m.r > d THEN c = m.q + 1
        ELSE c \in {m.q, m.q + 1}

SpecExampleLend == LendReq(Str("c1"), Num(1200000), Num(1000), Num(10000))

\* C9: after a valid lend (integer years) the stored loan has, each rounded
\* to 2 decimals, total_interest = principal*years*rate_percent/100,
\* total_amount = principal + that interest, emi_amount = that total /
\* (years*12); the response returns the stored total_amount and emi_amount;
\* lend("c1", 1200, 1, 10) on the empty store gives 1320, 110.00 and "1".
C9_LendTerms ==
    (LendApproved(last) /\ last.req.years.m % 1000 = 0)
    => LET loan == file.loans[last.loan_id]
           m == last.req.amount.m
           n == last.req.years.m \div 1000
           r == last.req.rate.m
       IN  /\ loan.total_interest = FromCents(CentsOf(loan.total_interest))
           /\ loan.total_amount = FromCents(CentsOf(loan.total_amount))
           /\ loan.emi_amount = FromCents(CentsOf(loan.emi_amount))
           /\ IsNearest(CentsOf(loan.total_interest), m * n, r, 1000000)
           /\ IsNearest(CentsOf(loan.total_amount), m, 100000 + n * r, 1000000)
           /\ IsNearest(CentsOf(loan.emi_amount), m, 100000 + n * r, 12 * n * 1000000)
           /\ last.total_amount_to_pay = loan.total_amount
           /\ last.monthly_emi = loan.emi_amount
           /\ (last.req = SpecExampleLend /\ Cardinality(LoanIds) = 1)
                => /\ last.loan_id = "1"
                   /\ last.total_amount_to_pay = FromCents(132000)
                   /\ last.monthly_emi = FromCents(11000)

C9_Witness ==
    /\ LendApproved(last)
    /\ last.req = SpecExampleLend
    /\ last.loan_id = "1"
    /\ CentsOf(file.loans["1"].total_amount) = 132000

\* C10: every recorded payment has a strictly positive amount.
C10_PaymentsPositive ==
    \A id \in LoanIds :
        \A i \in 1..Len(file.loans[id].payments) :
            file.loans[id].payments[i].amount > 0

LastPayment(id) == file.loans[id].payments[Len(file.loans[id].payments)]

\* C11: the amount_paid returned by a pay that records a payment equals the
\* amount of the payment record appended to the loan's history.
C11_ResponseAmountIsRecorded ==
    PayRecorded(last) => last.amount_paid = LastPayment(last.loan_id).amount

NonPositive(v) == v.t = "num" /\ v.m <= 0

LendBodyInvalid(req) ==
    \/ IsNull(req.customer_id) \/ req.customer_id = Str("")
    \/ IsNull(req.amount) \/ NonPositive(req.amount)
    \/ IsNull(req.years) \/ NonPositive(req.years)
    \/ IsNull(req.rate) \/ NonPositive(req.rate)

PayAmountInvalid(req) == IsNull(req.amount) \/ NonPositive(req.amount)

\* C12: a lend whose customer_id, amount, years or rate is missing, empty or
\* non-positive, and a pay whose amount is missing or non-positive, always
\* end with status 400.
C12_InvalidBodyIs400 ==
    /\ (last.op = "lend" /\ LendBodyInvalid(last.req)) => last.status = 400
    /\ (last.op = "pay" /\ PayAmountInvalid(last.req)) => last.status = 400

RECURSIVE SumCents(_)
SumCents(ps) ==
    IF ps = <<>> THEN 0
    ELSE SumCents(SubSeq(ps, 1, Len(ps) - 1)) + CentsOf(ps[Len(ps)].amount)

\* C13: for every loan, amount_paid is exactly the (decimal) sum of the
\* recorded payment amounts and balance_amount is total_amount minus that
\* sum.
C13_LedgerMatchesHistory ==
    \A id \in LoanIds :
        LET ps == file.loans[id].payments
            d == Details(id)
        IN  /\ \A i \in 1..Len(ps) : ps[i].amount = FromCents(CentsOf(ps[i].amount))
            /\ d.amount_paid = FromCents(SumCents(ps))
            /\ d.balance_amount = FromCents(CentsOf(d.total_amount) - SumCents(ps))

\* two payments whose float sum is not the float of their decimal sum
C13_Witness ==
    \E id \in LoanIds :
        /\ Len(file.loans[id].payments) = 2
        /\ SumAmounts(file.loans[id].payments) # FromCents(SumCents(file.loans[id].payments))

\* the identifiers of the loans originated for a customer, in the order of
\* origination
RECURSIVE LoansOf(_, _, _)
LoansOf(c, data, n) ==
    IF n = 0 THEN <<>>
    ELSE LET rest == LoansOf(c, data, n - 1)
             id == ToString(n)
         IN  IF id \in DOMAIN data.loans /\ data.loans[id].customer_id = c
             THEN Append(rest, id) ELSE rest

\* C14: getOverview answers NotFound exactly for a customer_id that never
\* received a loan, and otherwise one summary per loan originated for that
\* customer and no other, in the order of origination.
C14_OverviewLists ==
    last.op = "overview"
    => LET c == last.req
           expected == LoansOf(c, file, file.next_loan_id)
       IN  /\ last.status = 404 <=> expected = <<>>
           /\ last.status = 200
                => /\ Len(last.loans) = Len(expected)
                   /\ \A i \in 1..Len(expected) :
                        /\ last.loans[i].loan_id = expected[i]
                        /\ last.loans[i] = loan_summary(expected[i], file)

C14_Witness ==
    /\ last.op = "overview"
    /\ last.status = 200
    /\ Len(last.loans) = 2

Range(f) == { f[i] : i \in DOMAIN f }

Occurrences(data, id) ==
    Cardinality({ <<c, i>> \in (DOMAIN data.customers) \X (1..Cardinality(DOMAIN data.loans) + 1) :
                    /\ i <= Len(data.customers[c].loan_ids)
                    /\ data.customers[c].loan_ids[i] = id })

RefIntegrity(data) ==
    /\ \A c \in DOMAIN data.customers :
          \A id \in Range(data.customers[c].loan_ids) :
              id \in DOMAIN data.loans /\ data.loans[id].customer_id = c
    /\ \A id \in DOMAIN data.loans : Occurrences(data, id) = 1
    /\ \A c \in DOMAIN data.customers :
          Len(data.customers[c].loan_ids) <= Cardinality(DOMAIN data.loans)
    /\ DOMAIN data.loans = { ToString(n) : n \in 1..(data.next_loan_id - 1) }
    /\ Cardinality(DOMAIN data.loans) = data.next_loan_id - 1

\* C15: every loan_id of a customer is a loan of that customer, every loan
\* is listed exactly once, and the loans are exactly those numbered
\* 1 .. next_loan_id - 1.
C15_ReferentialIntegrity == RefIntegrity(file)

C15_Witness ==
    /\ Cardinality(LoanIds) = 2
    /\ Cardinality(DOMAIN file.customers) = 2

\* the datasets that requests processed one at a time can persist
SeqStep(D) ==
    D \cup { lend_update(req, d) :
               <<req, d>> \in { x \in ConcLendRequests \X D :
                                  /\ ~lend_raises(x[1])
                                  /\ lend_valid(x[1])
                                  /\ x[2].next_loan_id <= MaxLoans } }
      \cup { pay_update(req, d) :
               <<req, d>> \in { x \in ConcPayRequests \X D :
                                  /\ pay_records(x[1], x[2])
                                  /\ TotalPayments(x[2]) < MaxPayments } }

RECURSIVE SeqReach(_)
SeqReach(n) == IF n = 0 THEN {EmptyData} ELSE SeqStep(SeqReach(n - 1))

SeqReachable == SeqReach(MaxLoans + MaxPayments)

\* C16: with atomic load and save, every dataset persisted under any
\* interleaving is one that requests processed one at a time can persist;
\* in particular no loan has a negative balance and referential integrity
\* holds.
C16_PersistedIsSequential ==
    /\ file \in SeqReachable
    /\ \A id \in LoanIds : Details(id).balance_amount >= 0
    /\ RefIntegrity(file)

ApprovedAnswers ==
    Cardinality({ <<p, i>> \in Procs \X (1..MaxRequests) :
                    i <= Len(done[p]) /\ LendApproved(done[p][i]) })

RecordedAnswersAll ==
    Cardinality({ <<p, i>> \in Procs \X (1..MaxRequests) :
                    i <= Len(done[p]) /\ PayRecorded(done[p][i]) })

\* a lend and a pay raced: more requests were answered with success than
\* the persisted dataset shows
C16_Witness ==
    /\ \A p \in Procs : pc[p] = "idle"
    /\ ApprovedAnswers = 2
    /\ RecordedAnswersAll = 1
    /\ Cardinality(LoanIds) + TotalPayments(file) < 3

\* C17: two lends that loaded the same dataset are answered with the same
\* loan_id, and a lend that saves leaves the dataset it loaded plus its own
\* loan and registration, with next_loan_id one above the loaded one,
\* whatever was saved in between.
C17_LendRace ==
    [][ /\ \A p, q \in Procs :
              (/\ pc[p] = "save" /\ pc[q] = "save"
               /\ LendApproved(pend[p].resp) /\ LendApproved(pend[q].resp)
               /\ pend[p].base = pend[q].base)
              => pend[p].resp.loan_id = pend[q].resp.loan_id
        /\ \A p \in Procs :
              (Saves(p) /\ LendApproved(pend[p].resp))
              => LET base == pend[p].base
                     id == pend[p].resp.loan_id
                     cid == pend[p].resp.req.customer_id.s
                 IN  /\ id = ToString(base.next_loan_id)
                     /\ file'.next_loan_id = base.next_loan_id + 1
                     /\ DOMAIN file'.loans = (DOMAIN base.loans) \cup {id}
                     /\ \A k \in DOMAIN base.loans : file'.loans[k] = base.loans[k]
                     /\ file'.loans[id] = new_loan(pend[p].resp.req)
                     /\ DOMAIN file'.customers = (DOMAIN base.customers) \cup {cid}
                     /\ \A c \in (DOMAIN base.customers) \ {cid} :
                          file'.customers[c] = base.customers[c] ]_vars

\* both lends were approved with loan_id "1"; one loan is persisted and the
\* counter stands at 2
C17_Witness ==
    /\ \A p \in Procs : /\ pc[p] = "idle"
                        /\ Len(done[p]) = 1
                        /\ LendApproved(done[p][1])
                        /\ done[p][1].loan_id = "1"
    /\ done[1][1].req # done[2][1].req
    /\ Cardinality(LoanIds) = 1
    /\ file.next_loan_id = 2

\* emis_left of the loan before any payment
EmisAtStart(id) ==
    get_loan_details(id, [file EXCEPT !.loans[id].payments = <<>>]).emis_left

\* C18: when every pay is of exactly emi_amount (> 0), each pay lowers
\* emis_left by exactly 1, and the balance is 0 after exactly as many pays
\* as emis_left was at the start, not before.
C18_EmiCountdown ==
    \A id \in LoanIds :
        file.loans[id].emi_amount > 0
        => LET d == Details(id)
               k == Len(file.loans[id].payments)
           IN  /\ d.emis_left = EmisAtStart(id) - k
               /\ d.balance_amount <= 0 <=> k = EmisAtStart(id)

\* C19: right after an approved lend the new loan's emis_left is years*12.
C19_EmisLeftAtStart ==
    LendApproved(last)
    => Details(last.loan_id).emis_left = 12 * file.loans[last.loan_id].years

====
